---------------------------- MODULE Spec2Model ----------------------------
(***************************************************************************)
(* A model of the JASCO spectrum records of cd_library.py and              *)
(* abs_library.py: the line scan that locates the data section of an       *)
(* exported file, the construction of a record from it, and the methods    *)
(* that overwrite the record's working series (ht_filter, baseline, mre,   *)
(* smooth, integrate).                                                     *)
(*                                                                         *)
(* Numbers are exact rationals extended with the IEEE values the pandas    *)
(* arithmetic produces (inf, -inf, nan); rounding is not modelled.  A      *)
(* pandas Series is a sequence of (index label, value) entries.  The       *)
(* tabular reader (pandas.read_csv) and the Savitzky-Golay filter are      *)
(* library code: the reader is modelled by the rows it returns for a       *)
(* header offset and a row count, the filter by its result for the window  *)
(* lengths the model calls it with.                                        *)
(***************************************************************************)
EXTENDS Integers, Sequences, FiniteSets, TLC

(***************************************************************************)
(* Bounds of the model.                                                    *)
(***************************************************************************)
\* most data rows of a file
MaxRows == 3
\* most method calls made on one record
MaxCalls == 3
\* wavelength of the first data row of a file [nm]
WvTop == 500
\* data pitch of a file [nm]
Pitch == 2

\* ht_max = 600, the default of cd_spectra.__init__
HtMaxDefault == 600

-----------------------------------------------------------------------------
(***************************************************************************)
(* Numbers.  [n, d] with d > 0 is the rational n/d in lowest terms;        *)
(* d = 0 holds the float specials: 1/0 = inf, -1/0 = -inf, 0/0 = nan.      *)
(***************************************************************************)
Abs(x) == IF x < 0 THEN -x ELSE x

Sign(x) == IF x < 0 THEN -1 ELSE IF x > 0 THEN 1 ELSE 0

RECURSIVE GCD(_, _)
GCD(a, b) == IF b = 0 THEN a ELSE GCD(b, a % b)

Num(n, d) ==
    IF d = 0 THEN [n |-> Sign(n), d |-> 0]
    ELSE LET g == GCD(Abs(n), Abs(d))
             s == IF d < 0 THEN -1 ELSE 1
         IN  [n |-> (s * n) \div g, d |-> (s * d) \div g]

Int2Num(i) == [n |-> i, d |-> 1]

NaN == [n |-> 0, d |-> 0]

PosInf == [n |-> 1, d |-> 0]

NegInf == [n |-> -1, d |-> 0]

IsNaN(x) == x.d = 0 /\ x.n = 0

IsFinite(x) == x.d > 0

Neg(x) == [n |-> -x.n, d |-> x.d]

NumAdd(x, y) ==
    IF x.d = 0 /\ y.d = 0
    THEN (IF x.n = y.n THEN x ELSE NaN)
    ELSE Num(x.n * y.d + y.n * x.d, x.d * y.d)

NumSub(x, y) == NumAdd(x, Neg(y))

NumMul(x, y) == Num(x.n * y.n, x.d * y.d)

\* float division: x/0 is inf, -inf or nan and never raises
NumDiv(x, y) ==
    LET r == IF y.n < 0 THEN [n |-> -y.d, d |-> -y.n] ELSE [n |-> y.d, d |-> y.n]
    IN  Num(x.n * r.n, x.d * r.d)

\* x <= y; a comparison with nan is false
NumLeq(x, y) ==
    IF IsNaN(x) \/ IsNaN(y) THEN FALSE
    ELSE IF x.d = 0 /\ y.d = 0 THEN x.n <= y.n
    ELSE x.n * y.d <= y.n * x.d

\* x < y
NumLt(x, y) == NumLeq(x, y) /\ x # y

-----------------------------------------------------------------------------
(***************************************************************************)
(* pandas Series: a sequence of entries [idx |-> label, val |-> value].    *)
(***************************************************************************)
Entry(i, v) == [idx |-> i, val |-> v]

\* a column of a freshly read table: RangeIndex labels 0..n-1
Column(vals) == [i \in 1..Len(vals) |-> Entry(i - 1, vals[i])]

Values(s) == [i \in 1..Len(s) |-> s[i].val]

Labels(s) == {s[i].idx : i \in 1..Len(s)}

\* s.iloc[a:b] with a >= 0, b >= 0: the entries at positions a..b-1 that exist
ILocSlice(s, a, b) ==
    LET hi == IF b < Len(s) THEN b ELSE Len(s)
    IN  IF a >= hi THEN <<>> ELSE SubSeq(s, a + 1, hi)

\* s[mask]: the entries at the labels where the mask is true, labels kept
Masked(s, keep) == SelectSeq(s, LAMBDA e : e.idx \in keep)

ValAt(s, label) ==
    LET hit == {i \in 1..Len(s) : s[i].idx = label}
    IN  IF hit = {} THEN NaN ELSE s[CHOOSE i \in hit : TRUE].val

RECURSIVE SortedLabels(_)
SortedLabels(S) ==
    IF S = {} THEN <<>>
    ELSE LET m == CHOOSE x \in S : \A y \in S : x <= y
         IN  <<m>> \o SortedLabels(S \ {m})

\* a - b: aligned on the index labels; a label one side lacks gives nan
SeriesSub(a, b) ==
    LET both == Labels(a) \cap Labels(b)
        ls   == SortedLabels(Labels(a) \cup Labels(b))
    IN  [i \in 1..Len(ls) |->
            Entry(ls[i], IF ls[i] \in both
                         THEN NumSub(ValAt(a, ls[i]), ValAt(b, ls[i]))
                         ELSE NaN)]

\* a / x for a scalar x
SeriesDiv(a, x) == [i \in 1..Len(a) |-> Entry(a[i].idx, NumDiv(a[i].val, x))]

\* s.sum(): nan entries are skipped (skipna), the empty sum is 0
RECURSIVE SeriesSum(_)
SeriesSum(s) ==
    IF s = <<>> THEN Int2Num(0)
    ELSE IF IsNaN(Head(s).val) THEN SeriesSum(Tail(s))
    ELSE NumAdd(Head(s).val, SeriesSum(Tail(s)))

-----------------------------------------------------------------------------
(***************************************************************************)
(* Files.  A file is its format and its lines; a line is its kind and its  *)
(* numeric cells.  Kinds: TITLE (the title line, "TITLE;name"), INFO (a    *)
(* header line "KEY;value"), XYDATA, ROW (a data row), BLANK (an empty     *)
(* line), EXTENDED ("##### Extended Information"), PITCH (the metadata     *)
(* line "Data pitch;<p> nm"), and for the grid format CHANNEL1, CHANNEL2,  *)
(* TEMPS (the row of temperature labels) and DELTAX (the header line       *)
(* "DELTAX;<step>").                                                       *)
(***************************************************************************)
Line(kind, cells) == [kind |-> kind, cells |-> cells]

\* the kinds whose first csv field holds a ';'
Semicoloned == {"TITLE", "INFO", "ROW", "PITCH", "TEMPS", "DELTAX"}

WvAt(i) == WvTop - Pitch * (i - 1)

\* the signal cell of row i: 3, -6, 9, -12, ...
SignalCell(i) == IF i % 2 = 1 THEN 3 * i ELSE -3 * i

HtCells == {HtMaxDefault, HtMaxDefault + 1}

\* the data rows of CD spectrum files: wavelength; CD; HT
RowsCD(n) ==
    {[i \in 1..n |-> Line("ROW", <<WvAt(i), SignalCell(i), h[i]>>)] :
        h \in [1..n -> HtCells]}

\* the data rows of absorbance files: wavelength; absorbance
RowsAbs(n) ==
    {[i \in 1..n |-> Line("ROW", <<WvAt(i), SignalCell(i)>>)]}

Rows(fmt, n) == IF fmt = "cd" THEN RowsCD(n) ELSE RowsAbs(n)

\* one table per format for the files that differ in their layout
SampleRows(fmt) ==
    IF fmt = "cd"
    THEN [i \in 1..MaxRows |->
            Line("ROW", <<WvAt(i), SignalCell(i),
                          IF i = MaxRows THEN HtMaxDefault + 1 ELSE HtMaxDefault>>)]
    ELSE [i \in 1..MaxRows |-> Line("ROW", <<WvAt(i), SignalCell(i)>>)]

Head2 == <<Line("TITLE", <<>>), Line("INFO", <<>>)>>

Foot == <<Line("BLANK", <<>>), Line("EXTENDED", <<>>), Line("PITCH", <<Pitch>>)>>

Layouts ==
    {"ok", "twoEnd", "twoStart", "noBlank", "noStart", "noEnd", "endFirst",
     "neither", "empty", "adjacent", "noPitch", "startOnTop"}

LinesOf(layout, rows) ==
    CASE layout = "ok"         -> Head2 \o <<Line("XYDATA", <<>>)>> \o rows \o Foot
      [] layout = "twoEnd"     -> Head2 \o <<Line("XYDATA", <<>>)>> \o rows \o Foot
                                    \o <<Line("EXTENDED", <<>>), Line("INFO", <<>>)>>
      [] layout = "twoStart"   -> Head2 \o <<Line("XYDATA", <<>>), Line("INFO", <<>>),
                                             Line("XYDATA", <<>>)>> \o rows \o Foot
      [] layout = "noBlank"    -> Head2 \o <<Line("XYDATA", <<>>)>> \o rows \o Tail(Foot)
      [] layout = "noStart"    -> Head2 \o rows \o Foot
      [] layout = "noEnd"      -> Head2 \o <<Line("XYDATA", <<>>)>> \o rows
                                    \o <<Line("BLANK", <<>>), Line("PITCH", <<Pitch>>)>>
      [] layout = "endFirst"   -> <<Line("TITLE", <<>>), Line("EXTENDED", <<>>),
                                    Line("PITCH", <<Pitch>>), Line("XYDATA", <<>>)>>
                                    \o rows \o <<Line("BLANK", <<>>)>>
      [] layout = "neither"    -> Head2 \o rows \o <<Line("BLANK", <<>>)>>
      [] layout = "empty"      -> Head2 \o <<Line("XYDATA", <<>>)>> \o Foot
      [] layout = "adjacent"   -> Head2 \o <<Line("XYDATA", <<>>)>> \o Tail(Foot)
      [] layout = "noPitch"    -> Head2 \o <<Line("XYDATA", <<>>)>> \o rows
                                    \o <<Line("BLANK", <<>>), Line("EXTENDED", <<>>)>>
      [] layout = "startOnTop" -> <<Line("XYDATA", <<>>)>> \o rows \o Foot

File(fmt, lines) == [fmt |-> fmt, lines |-> lines]

\* the files of the single-spectrum formats ("cd", "abs") the model parses
SpectrumFiles(fmt) ==
    {File(fmt, LinesOf("ok", r)) : r \in UNION {Rows(fmt, n) : n \in 1..MaxRows}}
    \cup {File(fmt, LinesOf(l, SampleRows(fmt))) : l \in Layouts \ {"ok"}}

\* the temperature labels of the grid files
Temperatures == <<20, 30>>

\* the rows of one channel of a grid file: wavelength; one cell per temperature
GridRows(n, cell) ==
    [i \in 1..n |-> Line("ROW", <<WvAt(i)>> \o [t \in 1..Len(Temperatures) |-> cell[i][t]])]

\* Channel 1 holds the CD, Channel 2 the HT; DELTAX is the step, negative for
\* a descending scan
GridLines(layout, cd, ht) ==
    LET top == <<Line("TITLE", <<>>), Line("DELTAX", <<-Pitch>>)>>
        ch1 == <<Line("CHANNEL1", <<>>), Line("TEMPS", Temperatures)>> \o cd
        ch2 == <<Line("CHANNEL2", <<>>), Line("TEMPS", Temperatures)>> \o ht
    IN  CASE layout = "ok"      -> top \o ch1 \o ch2
          [] layout = "noStart" -> top \o Tail(ch1) \o ch2
          [] layout = "noEnd"   -> top \o ch1 \o Tail(ch2)
          [] layout = "neither" -> top \o Tail(ch1) \o Tail(ch2)
          [] layout = "blank"   -> top \o ch1 \o <<Line("BLANK", <<>>)>> \o ch2

\* the grid files the model parses: the HT of the first temperature varies
GridFiles ==
    LET T      == 1..Len(Temperatures)
        cdcell == [i \in 1..MaxRows |-> [t \in T |-> SignalCell(i) * t]]
        sample == [i \in 1..MaxRows |->
                     [t \in T |-> IF i = MaxRows /\ t = 1 THEN HtMaxDefault + 1 ELSE HtMaxDefault]]
        htcell(h) == [i \in 1..MaxRows |-> [t \in T |-> IF t = 1 THEN h[i] ELSE HtMaxDefault]]
    IN  {File("grid", GridLines("ok", GridRows(n, cdcell), GridRows(n, htcell(h)))) :
            n \in 1..MaxRows, h \in [1..MaxRows -> HtCells]}
        \cup {File("grid", GridLines(l, GridRows(MaxRows, cdcell), GridRows(MaxRows, sample))) :
                l \in {"noStart", "noEnd", "neither", "blank"}}

-----------------------------------------------------------------------------
(***************************************************************************)
(* The line scan of the constructors and of baseline.  start and end are   *)
(* local variables that stay unbound until their sentinel is met: <<>> is  *)
(* unbound, <<v>> is bound to v.                                           *)
(***************************************************************************)
\* variant: start and end bound to 0 before the loop
ScanStatePreset == [start |-> <<0>>, end |-> <<0>>, raised |-> "none"]

ScanState == [start |-> <<>>, end |-> <<>>, raised |-> "none"]

RECURSIVE Scan(_, _, _, _)
Scan(lines, position, titled, st) ==
    IF position >= Len(lines) THEN st
    ELSE LET line == lines[position + 1]
         IN  IF titled /\ position = 0
             THEN (IF line.kind \in Semicoloned
                   THEN Scan(lines, position + 1, titled, st)
                   ELSE [st EXCEPT !.raised = "IndexError"])
             ELSE IF line.kind = "XYDATA"
             THEN Scan(lines, position + 1, titled, [st EXCEPT !.start = <<position + 1>>])
             ELSE IF line.kind = "EXTENDED"
             THEN [st EXCEPT !.end = <<position - 1>>]
             ELSE Scan(lines, position + 1, titled, st)

\* pandas.read_csv(path, names = cols, header = h, nrows = n): the non-blank
\* lines at positions h+1 .. h+n of the file, as far as the file goes
ReadRows(lines, header, nrows) ==
    LET lo == header + 2
        hi == IF header + 1 + nrows < Len(lines) THEN header + 1 + nrows ELSE Len(lines)
    IN  IF lo > hi THEN <<>>
        ELSE SelectSeq(SubSeq(lines, lo, hi), LAMBDA l : l.kind # "BLANK")

\* a cell of a table row; a row read from a line that is no data row has no numbers
Cell(row, j) == IF row.kind = "ROW" /\ j <= Len(row.cells) THEN Int2Num(row.cells[j]) ELSE NaN

TableColumn(rows, j) == Column([i \in 1..Len(rows) |-> Cell(rows[i], j)])

\* the 'Data pitch' field of the metadata read with header = end + 1
DataPitch(lines, end) ==
    LET after == IF end + 3 > Len(lines) THEN <<>> ELSE SubSeq(lines, end + 3, Len(lines))
        hit   == SelectSeq(after, LAMBDA l : l.kind = "PITCH")
    IN  IF hit = <<>> THEN <<>> ELSE <<Int2Num(hit[1].cells[1])>>

-----------------------------------------------------------------------------
(***************************************************************************)
(* Records.  A record is the object's attributes; an attribute a method    *)
(* creates (blank, smoothed, integral) is <<>> until it is set and <<v>>   *)
(* after.  The attributes no method reads (path, name, title, info,        *)
(* metadata) are left out.                                                 *)
(***************************************************************************)
NoObject == [cls |-> "none"]

Outcome(op, args, raised, printed) ==
    [op |-> op, args |-> args, raised |-> raised, printed |-> printed]

\* s.iloc[i] for one position, negative positions counted from the end:
\* <<entry>>, or <<>> where Python raises IndexError
ILocAt(s, i) ==
    LET k == IF i < 0 THEN Len(s) + i + 1 ELSE i + 1
    IN  IF k >= 1 /\ k <= Len(s) THEN <<s[k]>> ELSE <<>>

\* the loop of __init__ over the HT column: the first position whose HT is
\* above ht_max, or len(wavelength) when there is none
\* variant: the test is ht >= ht_max
RECURSIVE PositionCutoffGeq(_, _, _)
PositionCutoffGeq(ht, position, ht_max) ==
    IF position >= Len(ht) THEN Len(ht)
    ELSE IF NumLeq(ht_max, ht[position + 1].val) THEN position
    ELSE PositionCutoffGeq(ht, position + 1, ht_max)

RECURSIVE PositionCutoff(_, _, _)
PositionCutoff(ht, position, ht_max) ==
    IF position >= Len(ht) THEN Len(ht)
    ELSE IF NumLt(ht_max, ht[position + 1].val) THEN position
    ELSE PositionCutoff(ht, position + 1, ht_max)

Failed(op, args, raised) == [self |-> NoObject, out |-> Outcome(op, args, raised, <<>>)]

\* cd_spectra(path, ht_max): the record, or the exception that ends __init__
cd_spectra_init(f, ht_max) ==
    LET sc    == Scan(f.lines, 0, TRUE, ScanState)
        args  == <<ht_max>>
        fail(e) == Failed("__init__", args, e)
    IN  IF sc.raised # "none" THEN fail(sc.raised)
        ELSE IF sc.start = <<>> THEN fail("UnboundLocalError")
        ELSE IF sc.end = <<>> THEN fail("UnboundLocalError")
        ELSE IF sc.end[1] - sc.start[1] < 0 THEN fail("ValueError")
        ELSE
          LET data       == ReadRows(f.lines, sc.start[1] - 1, sc.end[1] - sc.start[1])
              wavelength == TableColumn(data, 1)
              cd         == TableColumn(data, 2)
              ht         == TableColumn(data, 3)
              pitch      == DataPitch(f.lines, sc.end[1])
          IN  IF data = <<>> THEN fail("IndexError")
              ELSE IF pitch = <<>> THEN fail("KeyError")
              ELSE
                LET idx_cutoff == PositionCutoff(ht, 0, Int2Num(ht_max)) - 1
                IN  [self |->
                       [cls             |-> "cd_spectra",
                        data            |-> data,
                        wavelength_raw  |-> wavelength,
                        wavelength      |-> wavelength,
                        ellipticity_raw |-> cd,
                        ellipticity     |-> cd,
                        ht              |-> ht,
                        wv_min          |-> ILocAt(wavelength, -1)[1].val,
                        wv_max          |-> ILocAt(wavelength, 0)[1].val,
                        idx_cutoff      |-> idx_cutoff,
                        wv_cutoff       |-> ILocAt(wavelength, idx_cutoff)[1].val,
                        filtered        |-> FALSE,
                        corrected       |-> FALSE,
                        wv_delta        |-> pitch[1],
                        blank           |-> <<>>,
                        smoothed        |-> <<>>,
                        integral        |-> <<>>],
                     out |-> Outcome("__init__", args, "none", <<>>)]

\* variant: no test of the flag, and the flag flipped on every call
ht_filter_toggle(s) ==
    [self |-> [s EXCEPT !.ellipticity = ILocSlice(s.ellipticity, 0, s.idx_cutoff + 1),
                        !.wavelength  = ILocSlice(s.wavelength, 0, s.idx_cutoff + 1),
                        !.filtered    = ~s.filtered],
     out  |-> Outcome("ht_filter", <<>>, "none", <<>>)]

\* variant: the wavelength sliced to idx_cutoff, the ellipticity to idx_cutoff + 1
ht_filter_short(s) ==
    IF ~s.filtered
    THEN [self |-> [s EXCEPT !.ellipticity = ILocSlice(s.ellipticity, 0, s.idx_cutoff + 1),
                             !.wavelength  = ILocSlice(s.wavelength, 0, s.idx_cutoff),
                             !.filtered    = TRUE],
          out  |-> Outcome("ht_filter", <<>>, "none", <<>>)]
    ELSE [self |-> s,
          out  |-> Outcome("ht_filter", <<>>, "none",
                           <<"Your data has already been filtered using HT threshold">>)]

\* cd_spectra.ht_filter()
ht_filter(s) ==
    IF ~s.filtered
    THEN [self |-> [s EXCEPT !.ellipticity = ILocSlice(s.ellipticity, 0, s.idx_cutoff + 1),
                             !.wavelength  = ILocSlice(s.wavelength, 0, s.idx_cutoff + 1),
                             !.filtered    = TRUE],
          out  |-> Outcome("ht_filter", <<>>, "none", <<>>)]
    ELSE [self |-> s,
          out  |-> Outcome("ht_filter", <<>>, "none",
                           <<"Your data has already been filtered using HT threshold">>)]

\* the body of baseline under `if not self.corrected`: the blank file at
\* baseline_path is scanned and read, and subtracted over the kept range
baseline_subtract(s, blank) ==
    LET args    == <<blank>>
        fail(e) == [self |-> s, out |-> Outcome("baseline", args, e, <<>>)]
        sc      == Scan(blank.lines, 0, FALSE, ScanState)
    IN  IF sc.start = <<>> THEN fail("UnboundLocalError")
        ELSE IF sc.end = <<>> THEN fail("UnboundLocalError")
        ELSE IF sc.end[1] - sc.start[1] < 0 THEN fail("ValueError")
        ELSE
          LET rows   == ReadRows(blank.lines, sc.start[1] - 1, sc.end[1] - sc.start[1])
              bwv    == TableColumn(rows, 1)
              bcd    == TableColumn(rows, 2)
              wv_min == IF s.filtered THEN s.wv_cutoff ELSE s.wv_min
              keep   == {bwv[i].idx : i \in {j \in 1..Len(bwv) :
                            NumLeq(wv_min, bwv[j].val) /\ NumLeq(bwv[j].val, s.wv_max)}}
          IN  [self |-> [s EXCEPT !.blank       = <<rows>>,
                                  !.wavelength  = Masked(bwv, keep),
                                  !.ellipticity = SeriesSub(s.ellipticity, Masked(bcd, keep)),
                                  !.corrected   = TRUE],
               out  |-> Outcome("baseline", args, "none", <<>>)]

\* variant: no test of the corrected flag
baseline_unguarded(s, blank) == baseline_subtract(s, blank)

\* cd_spectra.baseline(baseline_path); blank is the file at baseline_path
baseline(s, blank) ==
    IF ~s.corrected
    THEN baseline_subtract(s, blank)
    ELSE [self |-> s,
          out  |-> Outcome("baseline", <<blank>>, "none", <<"Baseline is already corrected">>)]

\* scipy.signal.savgol_filter(x, wdw, polyorder) in its default mode 'interp',
\* for the windows the model uses: <<y>>, or <<>> where it raises ValueError.
\* Window 3 with a line fitted: the mean of three neighbours inside, the fitted
\* line at the two ends.
SavgolFilter(x, wdw, polyorder) ==
    LET n    == Len(x)
        q(i) == Int2Num(i)
        mix(a, b, c, y0, y1, y2) ==
            NumDiv(NumAdd(NumAdd(NumMul(q(a), y0), NumMul(q(b), y1)), NumMul(q(c), y2)), q(6))
    IN  IF polyorder >= wdw \/ wdw > n THEN <<>>
        ELSE IF wdw = 1 THEN <<x>>
        ELSE <<[i \in 1..n |->
                  IF i = 1 THEN mix(5, 2, -1, x[1], x[2], x[3])
                  ELSE IF i = n THEN mix(-1, 2, 5, x[n - 2], x[n - 1], x[n])
                  ELSE mix(2, 2, 2, x[i - 1], x[i], x[i + 1])]>>

\* cd_spectra.smooth(wdw, polyorder)
smooth(s, wdw, polyorder) ==
    LET y == SavgolFilter(Values(s.ellipticity), wdw, polyorder)
    IN  IF y = <<>>
        THEN [self |-> s, out |-> Outcome("smooth", <<wdw, polyorder>>, "ValueError", <<>>)]
        ELSE [self |-> [s EXCEPT !.smoothed = y],
              out  |-> Outcome("smooth", <<wdw, polyorder>>, "none", <<>>)]

\* 10*concentration*aa_number*pathlength
MreDivisor(concentration, aa_number, pathlength) ==
    NumMul(NumMul(NumMul(Int2Num(10), concentration), aa_number), pathlength)

\* variant: the division starts from ellipticity_raw
mre_of_raw(s, concentration, aa_number, pathlength) ==
    [self |-> [s EXCEPT !.ellipticity =
                  SeriesDiv(s.ellipticity_raw, MreDivisor(concentration, aa_number, pathlength))],
     out  |-> Outcome("mre", <<concentration, aa_number, pathlength>>, "none", <<>>)]

\* variant: the division is made in place, on the series ellipticity_raw names too
mre_in_place(s, concentration, aa_number, pathlength) ==
    [self |-> [s EXCEPT !.ellipticity =
                  SeriesDiv(s.ellipticity, MreDivisor(concentration, aa_number, pathlength)),
                        !.ellipticity_raw =
                  SeriesDiv(s.ellipticity_raw, MreDivisor(concentration, aa_number, pathlength))],
     out  |-> Outcome("mre", <<concentration, aa_number, pathlength>>, "none", <<>>)]

\* variant: the change of units clears the corrected flag
mre_uncorrects(s, concentration, aa_number, pathlength) ==
    [self |-> [s EXCEPT !.ellipticity =
                  SeriesDiv(s.ellipticity, MreDivisor(concentration, aa_number, pathlength)),
                        !.corrected = FALSE],
     out  |-> Outcome("mre", <<concentration, aa_number, pathlength>>, "none", <<>>)]

\* cd_spectra.mre(concentration, aa_number, pathlength)
mre(s, concentration, aa_number, pathlength) ==
    [self |-> [s EXCEPT !.ellipticity =
                  SeriesDiv(s.ellipticity, MreDivisor(concentration, aa_number, pathlength))],
     out  |-> Outcome("mre", <<concentration, aa_number, pathlength>>, "none", <<>>)]

\* variant: s[s <= x].index, the samples at or below x
IndexOfAtMost(s, x) ==
    LET hit == SelectSeq(s, LAMBDA e : NumLeq(e.val, x))
    IN  [i \in 1..Len(hit) |-> hit[i].idx]

\* s[s == x].index: the labels of the entries equal to x, in order
IndexOf(s, x) ==
    LET hit == SelectSeq(s, LAMBDA e : e.val = x /\ ~IsNaN(x))
    IN  [i \in 1..Len(hit) |-> hit[i].idx]

\* variant: the slice ends at the index of the lower limit, without the + 1
RiemannSumOpen(wavelength, signal, wv_delta, wv_limit_lower, wv_limit_upper) ==
    LET iu == IndexOf(wavelength, wv_limit_upper)
        il == IndexOf(wavelength, wv_limit_lower)
    IN  IF iu = <<>> \/ il = <<>> THEN <<>>
        ELSE <<NumMul(wv_delta, SeriesSum(ILocSlice(signal, iu[1], il[1])))>>

\* wv_delta * signal.iloc[wavelength[wavelength == upper].index[0] :
\*                        wavelength[wavelength == lower].index[0] + 1].sum(),
\* or <<>> where .index[0] raises IndexError
RiemannSum(wavelength, signal, wv_delta, wv_limit_lower, wv_limit_upper) ==
    LET iu == IndexOf(wavelength, wv_limit_upper)
        il == IndexOf(wavelength, wv_limit_lower)
    IN  IF iu = <<>> \/ il = <<>> THEN <<>>
        ELSE <<NumMul(wv_delta, SeriesSum(ILocSlice(signal, iu[1], il[1] + 1)))>>

\* cd_spectra.integrate(wv_limit_lower, wv_limit_upper)
integrate(s, wv_limit_lower, wv_limit_upper) ==
    LET r    == RiemannSum(s.wavelength, s.ellipticity, s.wv_delta, wv_limit_lower, wv_limit_upper)
        args == <<wv_limit_lower, wv_limit_upper>>
    IN  IF r = <<>>
        THEN [self |-> s, out |-> Outcome("integrate", args, "IndexError", <<>>)]
        ELSE [self |-> [s EXCEPT !.integral = r],
              out  |-> Outcome("integrate", args, "none", <<>>)]

-----------------------------------------------------------------------------
(***************************************************************************)
(* abs_spectra.  An optional argument is <<>> when it is None and <<v>>    *)
(* when it is given.                                                       *)
(***************************************************************************)
\* abs_spectra(path)
abs_spectra_init(f) ==
    LET sc      == Scan(f.lines, 0, TRUE, ScanState)
        fail(e) == Failed("__init__", <<>>, e)
    IN  IF sc.raised # "none" THEN fail(sc.raised)
        ELSE IF sc.start = <<>> THEN fail("UnboundLocalError")
        ELSE IF sc.end = <<>> THEN fail("UnboundLocalError")
        ELSE IF sc.end[1] - sc.start[1] < 0 THEN fail("ValueError")
        ELSE
          LET data       == ReadRows(f.lines, sc.start[1] - 1, sc.end[1] - sc.start[1])
              wavelength == TableColumn(data, 1)
              absorbance == TableColumn(data, 2)
              pitch      == DataPitch(f.lines, sc.end[1])
          IN  IF data = <<>> THEN fail("IndexError")
              ELSE IF pitch = <<>> THEN fail("KeyError")
              ELSE [self |->
                      [cls           |-> "abs_spectra",
                       data          |-> data,
                       wavelength    |-> wavelength,
                       abs_raw       |-> absorbance,
                       abs           |-> absorbance,
                       wv_min        |-> ILocAt(wavelength, -1)[1].val,
                       wv_max        |-> ILocAt(wavelength, 0)[1].val,
                       corrected     |-> FALSE,
                       wv_delta      |-> pitch[1],
                       blank         |-> <<>>,
                       smoothed      |-> <<>>,
                       concentration |-> <<>>,
                       integral      |-> <<>>],
                    out |-> Outcome("__init__", <<>>, "none", <<>>)]

\* abs_spectra.baseline(baseline_path = None, nm = None).  The file is opened
\* where no path is given, and open(None) raises TypeError; the second block
\* reads self.nm, an attribute no code sets, where no wavelength is given.
abs_baseline(s, baseline_path, nm) ==
    LET args == <<baseline_path, nm>>
        said1 == IF baseline_path = <<>> /\ s.corrected
                 THEN <<"You have already substracted the buffer!">> ELSE <<>>
    IN  IF baseline_path = <<>> /\ ~s.corrected
        THEN [self |-> s, out |-> Outcome("baseline", args, "TypeError", <<>>)]
        ELSE IF nm = <<>>
        THEN [self |-> s, out |-> Outcome("baseline", args, "AttributeError", said1)]
        ELSE [self |-> s,
              out  |-> Outcome("baseline", args, "none",
                               said1 \o <<"You have already substracted a baseline value!">>)]

\* abs_spectra.smooth(wdw, polyorder)
abs_smooth(s, wdw, polyorder) ==
    LET y == SavgolFilter(Values(s.abs), wdw, polyorder)
    IN  IF y = <<>>
        THEN [self |-> s, out |-> Outcome("smooth", <<wdw, polyorder>>, "ValueError", <<>>)]
        ELSE [self |-> [s EXCEPT !.smoothed = y],
              out  |-> Outcome("smooth", <<wdw, polyorder>>, "none", <<>>)]

\* abs_spectra.concentration_calc(wv, molar_extinction_coeff, pathlength):
\* its first statement reads self.nm
abs_concentration_calc(s, wv, molar_extinction_coeff, pathlength) ==
    [self |-> s,
     out  |-> Outcome("concentration_calc", <<wv, molar_extinction_coeff, pathlength>>,
                      "AttributeError", <<>>)]

\* abs_spectra.integrate(wv_limit_lower, wv_limit_upper)
abs_integrate(s, wv_limit_lower, wv_limit_upper) ==
    LET r    == RiemannSum(s.wavelength, s.abs, s.wv_delta, wv_limit_lower, wv_limit_upper)
        args == <<wv_limit_lower, wv_limit_upper>>
    IN  IF r = <<>>
        THEN [self |-> s, out |-> Outcome("integrate", args, "IndexError", <<>>)]
        ELSE [self |-> [s EXCEPT !.integral = r],
              out  |-> Outcome("integrate", args, "none", <<>>)]

-----------------------------------------------------------------------------
(***************************************************************************)
(* cd_melting_spectra: the wavelength x temperature grid, held as one long *)
(* table with a row per (temperature, wavelength) pair.  A column a method *)
(* adds is <<>> until it is added.                                         *)
(***************************************************************************)
\* the scan of cd_melting_spectra.__init__: 'TITLE' is looked for in line[0],
\* which an empty line does not have
RECURSIVE GridScan(_, _, _)
GridScan(lines, position, st) ==
    IF position >= Len(lines) THEN st
    ELSE LET line == lines[position + 1]
         IN  IF line.kind = "BLANK" THEN [st EXCEPT !.raised = "IndexError"]
             ELSE IF line.kind = "TITLE" THEN GridScan(lines, position + 1, st)
             ELSE IF line.kind = "CHANNEL1"
             THEN GridScan(lines, position + 1, [st EXCEPT !.start = <<position + 1>>])
             ELSE IF line.kind = "CHANNEL2"
             THEN [st EXCEPT !.end = <<position - 1>>]
             ELSE GridScan(lines, position + 1, st)

\* DataFrame.melt: the cells of a wide table, one temperature column after the other
Melt(rows, j) ==
    LET n == Len(rows)
    IN  [k \in 1..(n * Len(Temperatures)) |->
            Cell(rows[((k - 1) % n) + 1], IF j = 0 THEN 1 ELSE ((k - 1) \div n) + 2)]

MeltTemperature(rows) ==
    LET n == Len(rows)
    IN  [k \in 1..(n * Len(Temperatures)) |-> Temperatures[((k - 1) \div n) + 1]]

\* cd_melting_spectra(path, ht_max)
cd_melting_spectra_init(f, ht_max) ==
    LET sc      == GridScan(f.lines, 0, ScanState)
        args    == <<ht_max>>
        fail(e) == Failed("__init__", args, e)
    IN  IF sc.raised # "none" THEN fail(sc.raised)
        ELSE IF sc.start = <<>> THEN fail("UnboundLocalError")
        ELSE IF sc.end = <<>> THEN fail("UnboundLocalError")
        ELSE IF sc.end[1] - sc.start[1] < 0 THEN fail("ValueError")
        ELSE
          LET CD     == ReadRows(f.lines, sc.start[1], sc.end[1] - sc.start[1])
              HT     == ReadRows(f.lines, sc.end[1] + 2, Len(f.lines))
              delta  == SelectSeq(SubSeq(f.lines, 1, sc.start[1]), LAMBDA l : l.kind = "DELTAX")
              cd_raw == Melt(CD, 1)
              ht     == Melt(HT, 1)
              n      == IF Len(cd_raw) < Len(ht) THEN Len(cd_raw) ELSE Len(ht)
          IN  IF delta = <<>> THEN fail("KeyError")
              ELSE [self |->
                      [cls         |-> "cd_melting_spectra",
                       wv_delta    |-> Int2Num(Abs(delta[1].cells[1])),
                       wavelength  |-> [i \in 1..Len(CD) |-> Cell(CD[i], 1)],
                       temperatures |-> Temperatures,
                       data |->
                         [Wavelength  |-> Column(SubSeq(Melt(CD, 0), 1, n)),
                          Temperature |-> Column(SubSeq(MeltTemperature(CD), 1, n)),
                          CD_raw      |-> Column(SubSeq(cd_raw, 1, n)),
                          HT          |-> Column(SubSeq(ht, 1, n)),
                          CD_filtered |-> Column([k \in 1..n |->
                                            IF NumLeq(ht[k], Int2Num(ht_max))
                                            THEN cd_raw[k] ELSE NaN]),
                          CD_mre      |-> <<>>,
                          CD_smoothed |-> <<>>],
                       mre_transformation |-> FALSE,
                       integrals   |-> <<>>],
                    out |-> Outcome("__init__", args, "none", <<>>)]

\* cd_melting_spectra.mre(concentration, aa_number, pathlength)
melt_mre(s, concentration, aa_number, pathlength) ==
    [self |-> [s EXCEPT !.data.CD_mre =
                  <<SeriesDiv(s.data.CD_filtered,
                              MreDivisor(concentration, aa_number, pathlength))>>,
                        !.mre_transformation = TRUE],
     out  |-> Outcome("mre", <<concentration, aa_number, pathlength>>, "none", <<>>)]

\* the column smooth and integrate read
MeltColumn(s) == IF s.mre_transformation THEN s.data.CD_mre[1] ELSE s.data.CD_filtered

\* cd_melting_spectra.smooth(wdw, polyorder)
melt_smooth(s, wdw, polyorder) ==
    LET y == SavgolFilter(Values(MeltColumn(s)), wdw, polyorder)
    IN  IF y = <<>>
        THEN [self |-> s, out |-> Outcome("smooth", <<wdw, polyorder>>, "ValueError", <<>>)]
        ELSE [self |-> [s EXCEPT !.data.CD_smoothed = <<Column(y[1])>>],
              out  |-> Outcome("smooth", <<wdw, polyorder>>, "none", <<>>)]

\* cd_melting_spectra.integrate(wv_limit_lower, wv_limit_upper): one sum per
\* temperature over the rows whose wavelength lies within the limits
melt_integrate(s, wv_limit_lower, wv_limit_upper) ==
    LET column == MeltColumn(s)
        rows(temperature) ==
            {k \in 1..Len(column) :
                /\ s.data.Temperature[k].val = temperature
                /\ NumLeq(s.data.Wavelength[k].val, wv_limit_upper)
                /\ NumLeq(wv_limit_lower, s.data.Wavelength[k].val)}
        integrals ==
            [t \in 1..Len(s.temperatures) |->
                NumMul(s.wv_delta,
                       SeriesSum(SelectSeq(column,
                           LAMBDA e : (e.idx + 1) \in rows(s.temperatures[t]))))]
    IN  [self |-> [s EXCEPT !.integrals = <<integrals>>],
         out  |-> Outcome("integrate", <<wv_limit_lower, wv_limit_upper>>, "none", <<>>)]

-----------------------------------------------------------------------------
(***************************************************************************)
(* The arguments the model calls the methods with.                         *)
(***************************************************************************)
HtMaxArgs == {HtMaxDefault}

\* (concentration, aa_number, pathlength): the divisors are 4, 0, -2 and 2
MreArgs ==
    {<<Num(1, 5), Int2Num(1), Int2Num(2)>>,
     <<Int2Num(0), Int2Num(1), Int2Num(1)>>,
     <<Num(-1, 5), Int2Num(1), Int2Num(1)>>,
     <<Num(-1, 5), Int2Num(-1), Int2Num(1)>>}

\* (wdw, polyorder): a valid window, and polyorder >= wdw
SmoothArgs == {<<3, 1>>, <<1, 1>>}

\* (wv_limit_lower, wv_limit_upper): the first, the second and the last sample
\* of the longest files, and a wavelength between the first two samples
IntegrateArgs ==
    LET first  == Int2Num(WvAt(1))
        second == Int2Num(WvAt(2))
        final  == Int2Num(WvAt(MaxRows))
        off    == Int2Num(WvTop - 1)
    IN  {<<final, first>>, <<second, first>>, <<final, second>>, <<first, first>>,
         <<off, first>>, <<second, off>>}

\* the signal cell of row i of the blank files
BlankCell(i) == i

BlankRows(s) ==
    [i \in 1..Len(s.data) |->
        Line("ROW", <<s.data[i].cells[1], BlankCell(i), HtMaxDefault>>)]

\* the files baseline is given: a blank measured over the wavelengths of the
\* record's file (the blank baseline is documented to take), and a file
\* without XYDATA
BlankFiles(s) ==
    {File("cd", LinesOf("ok", BlankRows(s))),
     File("cd", LinesOf("noStart", BlankRows(s)))}

-----------------------------------------------------------------------------
VARIABLES
    file,   \* the file at self.path
    self,   \* the record: its attributes, NoObject while there is none
    last,   \* the last call: its arguments, the exception it raised, what it printed
    calls,  \* the number of method calls made on the record
    run     \* history: the successive mre calls that led to the current ellipticity

vars == <<file, self, last, calls, run>>

\* no mre call yet, or another method called since
NoRun == [n |-> 0, base |-> <<>>, divisor |-> Int2Num(1)]

\* one more successive mre call: base is the ellipticity before the first of
\* them, divisor the product of their divisors
RunAfter(a) ==
    [n       |-> run.n + 1,
     base    |-> IF run.n = 0 THEN self.ellipticity ELSE run.base,
     divisor |-> NumMul(run.divisor, MreDivisor(a[1], a[2], a[3]))]

Init ==
    /\ file \in SpectrumFiles("cd") \cup SpectrumFiles("abs") \cup GridFiles
    /\ self = NoObject
    /\ last = Outcome("none", <<>>, "none", <<>>)
    /\ calls = 0
    /\ run = NoRun

Construct(r) ==
    /\ last.op = "none"
    /\ self' = r.self
    /\ last' = r.out
    /\ UNCHANGED <<file, calls, run>>

Call(r) ==
    /\ calls < MaxCalls
    /\ self' = r.self
    /\ last' = r.out
    /\ calls' = calls + 1
    /\ run' = NoRun
    /\ UNCHANGED file

new_cd_spectra ==
    /\ file.fmt = "cd"
    /\ \E ht_max \in HtMaxArgs : Construct(cd_spectra_init(file, ht_max))

new_abs_spectra ==
    /\ file.fmt = "abs"
    /\ Construct(abs_spectra_init(file))

new_cd_melting_spectra ==
    /\ file.fmt = "grid"
    /\ \E ht_max \in HtMaxArgs : Construct(cd_melting_spectra_init(file, ht_max))

cd_ht_filter ==
    /\ self.cls = "cd_spectra"
    /\ Call(ht_filter(self))

cd_baseline ==
    /\ self.cls = "cd_spectra"
    /\ \E b \in BlankFiles(self) : Call(baseline(self, b))

cd_smooth ==
    /\ self.cls = "cd_spectra"
    /\ \E a \in SmoothArgs : Call(smooth(self, a[1], a[2]))

cd_mre ==
    /\ self.cls = "cd_spectra"
    /\ calls < MaxCalls
    /\ \E a \in MreArgs :
          /\ self' = mre(self, a[1], a[2], a[3]).self
          /\ last' = mre(self, a[1], a[2], a[3]).out
          /\ run' = RunAfter(a)
    /\ calls' = calls + 1
    /\ UNCHANGED file

cd_integrate ==
    /\ self.cls = "cd_spectra"
    /\ \E a \in IntegrateArgs : Call(integrate(self, a[1], a[2]))

abs_spectra_baseline ==
    /\ self.cls = "abs_spectra"
    /\ \E b \in {<<>>, <<File("abs", LinesOf("ok", SampleRows("abs")))>>},
          nm \in {<<>>, <<Int2Num(WvTop)>>} :
            Call(abs_baseline(self, b, nm))

abs_spectra_smooth ==
    /\ self.cls = "abs_spectra"
    /\ \E a \in SmoothArgs : Call(abs_smooth(self, a[1], a[2]))

abs_spectra_concentration_calc ==
    /\ self.cls = "abs_spectra"
    /\ Call(abs_concentration_calc(self, Int2Num(WvTop), Int2Num(1), Int2Num(1)))

abs_spectra_integrate ==
    /\ self.cls = "abs_spectra"
    /\ \E a \in IntegrateArgs : Call(abs_integrate(self, a[1], a[2]))

cd_melting_spectra_mre ==
    /\ self.cls = "cd_melting_spectra"
    /\ \E a \in MreArgs : Call(melt_mre(self, a[1], a[2], a[3]))

cd_melting_spectra_smooth ==
    /\ self.cls = "cd_melting_spectra"
    /\ \E a \in SmoothArgs : Call(melt_smooth(self, a[1], a[2]))

cd_melting_spectra_integrate ==
    /\ self.cls = "cd_melting_spectra"
    /\ \E a \in IntegrateArgs : Call(melt_integrate(self, a[1], a[2]))

Next ==
    \/ new_cd_spectra
    \/ new_abs_spectra
    \/ new_cd_melting_spectra
    \/ cd_ht_filter
    \/ cd_baseline
    \/ cd_smooth
    \/ cd_mre
    \/ cd_integrate
    \/ abs_spectra_baseline
    \/ abs_spectra_smooth
    \/ abs_spectra_concentration_calc
    \/ abs_spectra_integrate
    \/ cd_melting_spectra_mre
    \/ cd_melting_spectra_smooth
    \/ cd_melting_spectra_integrate

Spec == Init /\ [][Next]_vars

-----------------------------------------------------------------------------
(***************************************************************************)
(* Properties.  The 1-D records are cd_spectra and abs_spectra; their      *)
(* domain is wavelength, their signal ellipticity or abs.                  *)
(***************************************************************************)
OneD == {"cd_spectra", "abs_spectra"}

Signal(s) == IF s.cls = "cd_spectra" THEN s.ellipticity ELSE s.abs

SignalRaw(s) == IF s.cls = "cd_spectra" THEN s.ellipticity_raw ELSE s.abs_raw

\* x is a sample of the record's current domain
InDomain(s, x) ==
    IF s.cls = "cd_melting_spectra"
    THEN \E i \in 1..Len(s.wavelength) : s.wavelength[i] = x
    ELSE \E i \in 1..Len(s.wavelength) : s.wavelength[i].val = x

\* the step is a call of the method op
IsCall(op) == calls' = calls + 1 /\ last'.op = op

\* C1: an ht_filter call made right after an ht_filter call leaves the whole
\* record as the first call left it, from whatever state the first was made
C1_ht_filter_idempotent ==
    [][(last.op = "ht_filter" /\ IsCall("ht_filter")) => self' = self]_vars

\* a second ht_filter call has been made on a record the first one shortened
C1_witness ==
    /\ last.op = "ht_filter"
    /\ last.printed # <<>>
    /\ Len(self.ellipticity) < Len(self.ellipticity_raw)

C3_cutoff_and_truncation ==
    [][/\ (last.op = "none" /\ last'.op = "__init__" /\ self'.cls = "cd_spectra") =>
            LET above == {k \in 0..(Len(self'.ht) - 1) :
                            NumLt(Int2Num(last'.args[1]), self'.ht[k + 1].val)}
            IN  IF above = {}
                THEN self'.idx_cutoff = Len(self'.wavelength_raw) - 1
                ELSE \E k \in above : /\ \A j \in above : k <= j
                                      /\ self'.idx_cutoff = k - 1
       /\ (IsCall("ht_filter") /\ ~self.filtered) =>
            /\ Len(self'.wavelength) = self.idx_cutoff + 1
            /\ Len(self'.ellipticity) = self.idx_cutoff + 1
            /\ self'.wavelength = SubSeq(self.wavelength, 1, self.idx_cutoff + 1)
            /\ self'.ellipticity = SubSeq(self.ellipticity, 1, self.idx_cutoff + 1)
      ]_vars

\* the HT of a three-sample file is first above ht_max at index 2, and
\* ht_filter has cut the record to two samples
C3_witness ==
    /\ last.op = "ht_filter"
    /\ last.printed = <<>>
    /\ Len(self.ht) = 3
    /\ NumLeq(self.ht[2].val, Int2Num(HtMaxDefault))
    /\ NumLt(Int2Num(HtMaxDefault), self.ht[3].val)
    /\ self.idx_cutoff = 1
    /\ Len(self.wavelength) = 2

\* the 0-based position of the sample x in a domain
PositionOf(domain, x) == CHOOSE i \in 0..(Len(domain) - 1) : domain[i + 1].val = x

\* the sum of the samples at positions a..b, as pandas sums: nan counts for nothing
RECURSIVE SumFromTo(_, _, _)
SumFromTo(signal, a, b) ==
    IF a > b \/ a >= Len(signal) THEN Int2Num(0)
    ELSE NumAdd(IF IsNaN(signal[a + 1].val) THEN Int2Num(0) ELSE signal[a + 1].val,
                SumFromTo(signal, a + 1, b))

\* C4: on a 1-D record, integrate(lower, upper) with lower < upper both samples
\* of the current domain raises nothing and stores wv_delta times the sum of
\* the current signal from the index of upper to the index of lower inclusive,
\* after ht_filter and baseline too
C4_integral ==
    (/\ self.cls \in OneD
     /\ last.op = "integrate"
     /\ NumLt(last.args[1], last.args[2])
     /\ InDomain(self, last.args[1])
     /\ InDomain(self, last.args[2]))
    => /\ last.raised = "none"
       /\ self.integral =
            <<NumMul(self.wv_delta,
                     SumFromTo(Signal(self), PositionOf(self.wavelength, last.args[2]),
                               PositionOf(self.wavelength, last.args[1])))>>

\* integrate has summed two or more samples of a filtered and corrected record
C4_witness ==
    /\ self.cls = "cd_spectra"
    /\ self.filtered
    /\ self.corrected
    /\ last.op = "integrate"
    /\ last.raised = "none"
    /\ NumLt(last.args[1], last.args[2])
    /\ self.integral # <<Int2Num(0)>>

C6_mre_compounds ==
    (self.cls = "cd_spectra" /\ run.n >= 1 /\ (run.n = 1 \/ run.divisor.n # 0))
    => /\ last.op = "mre"
       /\ last.raised = "none"
       /\ Len(self.ellipticity) = Len(run.base)
       /\ \A i \in 1..Len(run.base) :
            self.ellipticity[i] = Entry(run.base[i].idx, NumDiv(run.base[i].val, run.divisor))

\* two mre calls in a row, with divisors 4 and 2, have divided a filtered
\* ellipticity by 8
C6_witness ==
    /\ self.cls = "cd_spectra"
    /\ self.filtered
    /\ run.n = 2
    /\ run.divisor = Int2Num(8)
    /\ self.ellipticity # <<>>
    /\ self.ellipticity # run.base

\* the divisor of the arguments is zero, or one of them is not positive
BadMreArgs(a) == MreDivisor(a[1], a[2], a[3]).n = 0 \/ \E j \in 1..3 : a[j].n <= 0

\* C7: mre with a zero divisor or a factor that is not positive raises an
\* error and leaves the signal unchanged
C7_mre_rejects ==
    [][(IsCall("mre") /\ BadMreArgs(last'.args))
          => /\ last'.raised # "none"
             /\ self.cls = "cd_spectra" => self'.ellipticity = self.ellipticity
             /\ self.cls = "cd_melting_spectra" => self'.data = self.data]_vars

\* the signal column of the file as __init__ reads it
ParsedSignal(f) ==
    LET sc == Scan(f.lines, 0, TRUE, ScanState)
    IN  TableColumn(ReadRows(f.lines, sc.start[1] - 1, sc.end[1] - sc.start[1]), 2)

\* C8: on a 1-D record the raw signal is, after any sequence of calls, the
\* signal column as it was parsed
C8_raw_signal_kept ==
    self.cls \in OneD => SignalRaw(self) = ParsedSignal(file)

\* ht_filter, baseline and mre have all changed the working signal
C8_witness ==
    /\ self.cls = "cd_spectra"
    /\ self.filtered
    /\ self.corrected
    /\ last.op = "mre"
    /\ self.ellipticity # <<>>
    /\ Len(self.ellipticity) < Len(self.ellipticity_raw)
    /\ self.ellipticity_raw = ParsedSignal(file)

\* C9: on a 1-D record the signal and the domain have the same length and the
\* same index labels, after any sequence of calls (the blanks are measured
\* over the domain of the record)
C9_signal_pairs_domain ==
    self.cls \in OneD =>
        /\ Len(Signal(self)) = Len(self.wavelength)
        /\ \A i \in 1..Len(self.wavelength) : Signal(self)[i].idx = self.wavelength[i].idx

\* a record that ht_filter shortened and baseline then corrected
C9_witness ==
    /\ self.cls = "cd_spectra"
    /\ self.filtered
    /\ last.op = "baseline"
    /\ last.printed = <<>>
    /\ self.corrected
    /\ Len(self.wavelength) > 0
    /\ Len(self.wavelength) < Len(self.wavelength_raw)

StartSentinel(f) == IF f.fmt = "grid" THEN "CHANNEL1" ELSE "XYDATA"

EndSentinel(f) == IF f.fmt = "grid" THEN "CHANNEL2" ELSE "EXTENDED"

\* the line numbers of the end sentinels
Ends(f) == {q \in 1..Len(f.lines) : f.lines[q].kind = EndSentinel(f)}

FirstEnd(f) == CHOOSE q \in Ends(f) : \A r \in Ends(f) : q <= r

\* the line numbers of the start sentinels above the first end sentinel
Starts(f) == {p \in 1..(FirstEnd(f) - 1) : f.lines[p].kind = StartSentinel(f)}

\* a start sentinel, and after it an end sentinel
Delimited(f) == Ends(f) # {} /\ Starts(f) # {}

\* the data rows between the last start sentinel and the first end sentinel
Section(f) ==
    LET p == CHOOSE p \in Starts(f) : \A r \in Starts(f) : r <= p
    IN  SelectSeq(SubSeq(f.lines, p + 1, FirstEnd(f) - 1), LAMBDA l : l.kind = "ROW")

\* C10: a file with no start sentinel, or no end sentinel after it, gives no
\* record: construction raises an error.  A record's rows are rows above the
\* first end sentinel, and a 1-D record has one row at least
C10_no_record_without_sentinels ==
    /\ (last.op # "none" /\ ~Delimited(file)) =>
          /\ self = NoObject
          /\ last.op = "__init__"
          /\ last.raised # "none"
    /\ self.cls \in OneD =>
          /\ self.data # <<>>
          /\ Len(self.data) <= Len(Section(file))
          /\ self.data = SubSeq(Section(file), 1, Len(self.data))
    /\ self.cls = "cd_melting_spectra" =>
          self.wavelength = [i \in 1..Len(Section(file)) |-> Cell(Section(file)[i], 1)]

\* construction has failed on a file that has data rows and no XYDATA line
C10_witness ==
    /\ last.op = "__init__"
    /\ last.raised = "UnboundLocalError"
    /\ self = NoObject
    /\ file.fmt = "cd"
    /\ \E i \in 1..Len(file.lines) : file.lines[i].kind = "ROW"
    /\ \E i \in 1..Len(file.lines) : file.lines[i].kind = "EXTENDED"
    /\ \A i \in 1..Len(file.lines) : file.lines[i].kind # "XYDATA"

\* the blank over the wavelengths of the record s
SameDomainBlank(s) == File("cd", LinesOf("ok", BlankRows(s)))

\* the lower limit of the range baseline keeps
LowerLimit(s) == IF s.filtered THEN s.wv_cutoff ELSE s.wv_min

\* the indices of the blank's samples between the lower limit and wv_max
BlankRange(s) ==
    {i \in 0..(Len(BlankRows(s)) - 1) :
        /\ NumLeq(LowerLimit(s), Int2Num(BlankRows(s)[i + 1].cells[1]))
        /\ NumLeq(Int2Num(BlankRows(s)[i + 1].cells[1]), s.wv_max)}

\* C11: baseline with a blank over the record's wavelengths, on a cd_spectra
\* not yet corrected, sets the corrected flag, makes wavelength the blank's
\* wavelengths within the range from the lower limit to wv_max, and at every
\* index of that range puts the ellipticity it held there minus the blank's
C11_baseline_subtracts ==
    [][(/\ IsCall("baseline")
        /\ self.cls = "cd_spectra"
        /\ ~self.corrected
        /\ last'.args[1] = SameDomainBlank(self))
          => /\ last'.raised = "none"
             /\ self'.corrected
             /\ self'.wavelength =
                  SelectSeq([i \in 1..Len(BlankRows(self)) |->
                                Entry(i - 1, Int2Num(BlankRows(self)[i].cells[1]))],
                            LAMBDA e : e.idx \in BlankRange(self))
             /\ \A i \in BlankRange(self) :
                  \E k \in 1..Len(self.ellipticity), j \in 1..Len(self'.ellipticity) :
                      /\ self.ellipticity[k].idx = i
                      /\ self'.ellipticity[j].idx = i
                      /\ self'.ellipticity[j].val =
                           NumSub(self.ellipticity[k].val,
                                  Int2Num(BlankRows(self)[i + 1].cells[2]))]_vars

\* C12: baseline on an abs_spectra not yet corrected, called with the path of
\* a blank file, subtracts the blank's absorbance from abs sample by sample
\* and sets the corrected flag; called with no path and no wavelength it
\* attempts nothing: no error, the record unchanged
C12_abs_baseline ==
    [][(IsCall("baseline") /\ self.cls = "abs_spectra" /\ ~self.corrected) =>
          /\ last'.args[1] # <<>> =>
                /\ last'.raised = "none"
                /\ self'.corrected
                /\ Len(self'.abs) = Len(self.abs)
                /\ \A i \in 1..Len(self.abs) :
                      i <= Len(ParsedSignal(last'.args[1][1])) =>
                          self'.abs[i] =
                              Entry(self.abs[i].idx,
                                    NumSub(self.abs[i].val,
                                           ParsedSignal(last'.args[1][1])[i].val))
          /\ last'.args = <<(<<>>), (<<>>)>> =>
                /\ last'.raised = "none"
                /\ self' = self]_vars

\* C13: on a cd_spectra, filtered and corrected are false after construction;
\* no call clears either; filtered changes only in ht_filter and corrected
\* only in baseline; ht_filter changes the working series only on the call
\* that sets filtered, baseline only on the call that sets corrected
C13_flags_one_shot ==
    [][/\ (last.op = "none" /\ self'.cls = "cd_spectra") =>
            (~self'.filtered /\ ~self'.corrected)
       /\ self.cls = "cd_spectra" =>
            /\ self.filtered => self'.filtered
            /\ self.corrected => self'.corrected
            /\ self'.filtered # self.filtered => IsCall("ht_filter")
            /\ self'.corrected # self.corrected => IsCall("baseline")
            /\ (IsCall("ht_filter") /\ <<self'.ellipticity, self'.wavelength>>
                                          # <<self.ellipticity, self.wavelength>>)
                  => (~self.filtered /\ self'.filtered)
            /\ (IsCall("baseline") /\ <<self'.ellipticity, self'.wavelength>>
                                         # <<self.ellipticity, self.wavelength>>)
                  => (~self.corrected /\ self'.corrected)
      ]_vars

\* a record filtered and corrected, on which baseline was called once more
C13_witness ==
    /\ self.cls = "cd_spectra"
    /\ self.filtered
    /\ self.corrected
    /\ calls = 3
    /\ last.op = "baseline"
    /\ last.printed # <<>>
    /\ self.blank # <<>>

\* C14: on a cd_spectra that ht_filter has been applied to, wavelength and
\* ellipticity hold no sample at an index after idx_cutoff, so none whose HT
\* is above ht_max, the first sample above ht_max at index 0 included; and
\* ht_filter and baseline applied in either order give the first
\* idx_cutoff + 1 samples of the wavelength and of the ellipticity minus blank
C14_filtered_stays_cut ==
    (self.cls = "cd_spectra" /\ self.filtered) =>
        /\ \A i \in 1..Len(self.wavelength) : self.wavelength[i].idx <= self.idx_cutoff
        /\ \A i \in 1..Len(self.ellipticity) : self.ellipticity[i].idx <= self.idx_cutoff
        /\ (self.corrected /\ calls = 2) =>
              /\ self.wavelength = SubSeq(self.wavelength_raw, 1, self.idx_cutoff + 1)
              /\ self.ellipticity =
                   [i \in 1..(self.idx_cutoff + 1) |->
                       Entry(i - 1, NumSub(self.ellipticity_raw[i].val,
                                           Cell(self.blank[1][i], 2)))]

=============================================================================
